---------------------------- MODULE Spec2Model ----------------------------
(***************************************************************************)
(* A model of oscar_mws/writers.py: the attribute mapper                   *)
(* (BaseProductMapper) that resolves the value of each feed field from a   *)
(* product's amazon_profile, the product and the mapper, and the feed      *)
(* writer (ProductFeedWriter) that owns the AmazonEnvelope document.       *)
(*                                                                         *)
(* Python strings are sequences of one-character strings, so that the      *)
(* regular expressions of convert_camel_case and the decimal text of a     *)
(* message id are computed, not assumed.  Element tags are TLA+ strings.   *)
(* A call that raises is a result whose exc field names the exception.     *)
(***************************************************************************)
EXTENDS Integers, Sequences, FiniteSets, TLC

VARIABLES
    root,          \* ProductFeedWriter.root: the AmazonEnvelope element
    msg_counter,   \* ProductFeedWriter.msg_counter: the value next() yields next
    messages,      \* ProductFeedWriter.messages: msg_id -> product
    schema,        \* ProductFeedWriter.schema, "unset" while the attribute is missing
    mapper_class,  \* ProductFeedWriter.mapper_class: the attributes of its instances
    op,            \* the operation called last
    arg,           \* the arguments of that call
    ret,           \* what it returned
    exc,           \* the exception it raised, "none" when it returned
    adds           \* history: one entry per add_product call, in call order

vars == <<root, msg_counter, messages, schema, mapper_class, op, arg, ret, exc, adds>>

-----------------------------------------------------------------------------
(* Characters and strings *)

UpperChars == {"A","B","C","D","E","F","G","H","I","J","K","L","M",
               "N","O","P","Q","R","S","T","U","V","W","X","Y","Z"}

LowerChars == {"a","b","c","d","e","f","g","h","i","j","k","l","m",
               "n","o","p","q","r","s","t","u","v","w","x","y","z"}

DigitChars == {"0","1","2","3","4","5","6","7","8","9"}

\* str.lower() on one character
LowerOf(c) ==
    CASE c = "A" -> "a" [] c = "B" -> "b" [] c = "C" -> "c" [] c = "D" -> "d"
      [] c = "E" -> "e" [] c = "F" -> "f" [] c = "G" -> "g" [] c = "H" -> "h"
      [] c = "I" -> "i" [] c = "J" -> "j" [] c = "K" -> "k" [] c = "L" -> "l"
      [] c = "M" -> "m" [] c = "N" -> "n" [] c = "O" -> "o" [] c = "P" -> "p"
      [] c = "Q" -> "q" [] c = "R" -> "r" [] c = "S" -> "s" [] c = "T" -> "t"
      [] c = "U" -> "u" [] c = "V" -> "v" [] c = "W" -> "w" [] c = "X" -> "x"
      [] c = "Y" -> "y" [] c = "Z" -> "z" [] OTHER -> c

\* str.lower()
Lower(s) == [i \in 1..Len(s) |-> LowerOf(s[i])]

-----------------------------------------------------------------------------
(* The field lists of BaseProductMapper *)

BASE_ATTRIBUTES == <<
    "SKU", "StandardProductID", "ProductTaxCode",
    "LaunchDate", "DiscontinueDate", "ReleaseDate",
    "ExternalProductUrl", "OffAmazonChannel", "OnAmazonChannel",
    "Condition", "Rebate", "ItemPackageQuantity",
    "NumberOfItems"
>>

DESCRIPTION_DATA_ATTRIBUTES == <<
    "Title", "Brand", "Designer",
    "Description", "BulletPoint", "ItemDimensions",
    "PackageDimensions", "PackageWeight", "ShippingWeight",
    "MerchantCatalogNumber", "MSRP", "MaxOrderQuantity",
    "SerialNumberRequired", "Prop65", "LegalDisclaimer",
    "Manufacturer", "MfrPartNumber", "SearchTerms",
    "PlatinumKeywords", "RecommendedBrowseNode", "Memorabilia",
    "Autographed", "UsedFor", "ItemType",
    "OtherItemAttributes", "TargetAudience", "SubjectContent",
    "IsGiftWrapAvailable", "IsGiftMessageAvailable", "IsDiscontinuedByManufacturer",
    "MaxAggregateShipQuantity"
>>

\* The characters of each field name
Chars ==
       "SKU" :> <<"S","K","U">>
    @@ "StandardProductID" :> <<"S","t","a","n","d","a","r","d","P","r","o","d","u","c","t","I","D">>
    @@ "ProductTaxCode" :> <<"P","r","o","d","u","c","t","T","a","x","C","o","d","e">>
    @@ "LaunchDate" :> <<"L","a","u","n","c","h","D","a","t","e">>
    @@ "DiscontinueDate" :> <<"D","i","s","c","o","n","t","i","n","u","e","D","a","t","e">>
    @@ "ReleaseDate" :> <<"R","e","l","e","a","s","e","D","a","t","e">>
    @@ "ExternalProductUrl" :> <<"E","x","t","e","r","n","a","l","P","r","o","d","u","c","t","U","r","l">>
    @@ "OffAmazonChannel" :> <<"O","f","f","A","m","a","z","o","n","C","h","a","n","n","e","l">>
    @@ "OnAmazonChannel" :> <<"O","n","A","m","a","z","o","n","C","h","a","n","n","e","l">>
    @@ "Condition" :> <<"C","o","n","d","i","t","i","o","n">>
    @@ "Rebate" :> <<"R","e","b","a","t","e">>
    @@ "ItemPackageQuantity" :> <<"I","t","e","m","P","a","c","k","a","g","e","Q","u","a","n","t","i","t","y">>
    @@ "NumberOfItems" :> <<"N","u","m","b","e","r","O","f","I","t","e","m","s">>
    @@ "Title" :> <<"T","i","t","l","e">>
    @@ "Brand" :> <<"B","r","a","n","d">>
    @@ "Designer" :> <<"D","e","s","i","g","n","e","r">>
    @@ "Description" :> <<"D","e","s","c","r","i","p","t","i","o","n">>
    @@ "BulletPoint" :> <<"B","u","l","l","e","t","P","o","i","n","t">>
    @@ "ItemDimensions" :> <<"I","t","e","m","D","i","m","e","n","s","i","o","n","s">>
    @@ "PackageDimensions" :> <<"P","a","c","k","a","g","e","D","i","m","e","n","s","i","o","n","s">>
    @@ "PackageWeight" :> <<"P","a","c","k","a","g","e","W","e","i","g","h","t">>
    @@ "ShippingWeight" :> <<"S","h","i","p","p","i","n","g","W","e","i","g","h","t">>
    @@ "MerchantCatalogNumber" :> <<"M","e","r","c","h","a","n","t","C","a","t","a","l","o","g","N","u","m","b","e","r">>
    @@ "MSRP" :> <<"M","S","R","P">>
    @@ "MaxOrderQuantity" :> <<"M","a","x","O","r","d","e","r","Q","u","a","n","t","i","t","y">>
    @@ "SerialNumberRequired" :> <<"S","e","r","i","a","l","N","u","m","b","e","r","R","e","q","u","i","r","e","d">>
    @@ "Prop65" :> <<"P","r","o","p","6","5">>
    @@ "LegalDisclaimer" :> <<"L","e","g","a","l","D","i","s","c","l","a","i","m","e","r">>
    @@ "Manufacturer" :> <<"M","a","n","u","f","a","c","t","u","r","e","r">>
    @@ "MfrPartNumber" :> <<"M","f","r","P","a","r","t","N","u","m","b","e","r">>
    @@ "SearchTerms" :> <<"S","e","a","r","c","h","T","e","r","m","s">>
    @@ "PlatinumKeywords" :> <<"P","l","a","t","i","n","u","m","K","e","y","w","o","r","d","s">>
    @@ "RecommendedBrowseNode" :> <<"R","e","c","o","m","m","e","n","d","e","d","B","r","o","w","s","e","N","o","d","e">>
    @@ "Memorabilia" :> <<"M","e","m","o","r","a","b","i","l","i","a">>
    @@ "Autographed" :> <<"A","u","t","o","g","r","a","p","h","e","d">>
    @@ "UsedFor" :> <<"U","s","e","d","F","o","r">>
    @@ "ItemType" :> <<"I","t","e","m","T","y","p","e">>
    @@ "OtherItemAttributes" :> <<"O","t","h","e","r","I","t","e","m","A","t","t","r","i","b","u","t","e","s">>
    @@ "TargetAudience" :> <<"T","a","r","g","e","t","A","u","d","i","e","n","c","e">>
    @@ "SubjectContent" :> <<"S","u","b","j","e","c","t","C","o","n","t","e","n","t">>
    @@ "IsGiftWrapAvailable" :> <<"I","s","G","i","f","t","W","r","a","p","A","v","a","i","l","a","b","l","e">>
    @@ "IsGiftMessageAvailable" :> <<"I","s","G","i","f","t","M","e","s","s","a","g","e","A","v","a","i","l","a","b","l","e">>
    @@ "IsDiscontinuedByManufacturer" :> <<"I","s","D","i","s","c","o","n","t","i","n","u","e","d","B","y","M","a","n","u","f","a","c","t","u","r","e","r">>
    @@ "MaxAggregateShipQuantity" :> <<"M","a","x","A","g","g","r","e","g","a","t","e","S","h","i","p","Q","u","a","n","t","i","t","y">>

FieldNames == DOMAIN Chars

-----------------------------------------------------------------------------
(* BaseProductMapper.convert_camel_case *)

RECURSIVE LowerRun(_, _)
\* [a-z]+ is greedy: the index just past the run of lower-case letters at i
LowerRun(s, i) ==
    IF i <= Len(s) /\ s[i] \in LowerChars THEN LowerRun(s, i + 1) ELSE i

RECURSIVE SubWord(_, _)
\* re.sub('(.)([A-Z][a-z]+)', r'\1_\2', s), scanning from index i: the
\* matches are found left to right and do not overlap
SubWord(s, i) ==
    IF i > Len(s) THEN <<>>
    ELSE IF /\ i + 2 <= Len(s)
            /\ s[i] # "\n"
            /\ s[i + 1] \in UpperChars
            /\ s[i + 2] \in LowerChars
         THEN LET j == LowerRun(s, i + 2)
              IN  <<s[i], "_">> \o SubSeq(s, i + 1, j - 1) \o SubWord(s, j)
         ELSE <<s[i]>> \o SubWord(s, i + 1)

RECURSIVE SubBoundary(_, _)
\* re.sub('([a-z0-9])([A-Z])', r'\1_\2', s), scanning from index i
SubBoundary(s, i) ==
    IF i > Len(s) THEN <<>>
    ELSE IF /\ i + 1 <= Len(s)
            /\ s[i] \in LowerChars \cup DigitChars
            /\ s[i + 1] \in UpperChars
         THEN <<s[i], "_", s[i + 1]>> \o SubBoundary(s, i + 2)
         ELSE <<s[i]>> \o SubBoundary(s, i + 1)

\* A slip that forgets the final lower()
convert_camel_case_nolower(name) == SubBoundary(SubWord(name, 1), 1)

convert_camel_case(name) == Lower(SubBoundary(SubWord(name, 1), 1))

-----------------------------------------------------------------------------
(* Python values *)

PyStr(s) == [kind |-> "str", s |-> s, n |-> 0, iso |-> <<>>]

PyInt(n) == [kind |-> "int", s |-> <<>>, n |-> n, iso |-> <<>>]

None == [kind |-> "none", s |-> <<>>, n |-> 0, iso |-> <<>>]

\* A datetime.date or datetime.datetime: s is its unicode() text, iso its
\* isoformat() text
PyDate(kind, s, iso) == [kind |-> kind, s |-> s, n |-> 0, iso |-> iso]

\* What getattr() gives for a name bound to a method: the bound method itself
BoundMethod ==
    [kind |-> "object", s |-> <<"<","b","o","u","n","d",">">>, n |-> 0, iso |-> <<>>]

\* bool(value)
Truthy(v) ==
    CASE v.kind = "none" -> FALSE
      [] v.kind = "str"  -> v.s # <<>>
      [] v.kind = "int"  -> v.n # 0
      [] OTHER           -> TRUE

Digit(d) == CASE d = 0 -> "0" [] d = 1 -> "1" [] d = 2 -> "2" [] d = 3 -> "3"
              [] d = 4 -> "4" [] d = 5 -> "5" [] d = 6 -> "6" [] d = 7 -> "7"
              [] d = 8 -> "8" [] d = 9 -> "9"

RECURSIVE NatText(_)
NatText(n) == IF n < 10 THEN <<Digit(n)>> ELSE NatText(n \div 10) \o <<Digit(n % 10)>>

\* unicode(value)
Unicode(v) ==
    CASE v.kind = "none" -> <<"N","o","n","e">>
      [] v.kind = "int"  -> IF v.n < 0 THEN <<"-">> \o NatText(-v.n) ELSE NatText(v.n)
      [] OTHER           -> v.s

-----------------------------------------------------------------------------
(* Python objects: a function from attribute name to what is bound to it.  *)
(* A method is callable and returns value or raises; a plain attribute     *)
(* holds value.                                                            *)

Attribute(v) == [callable |-> FALSE, raises |-> FALSE, value |-> v]

Method(v) == [callable |-> TRUE, raises |-> FALSE, value |-> v]

RaisingMethod == [callable |-> TRUE, raises |-> TRUE, value |-> None]

NoAttrs == [x \in {} |-> Attribute(None)]

\* hasattr(obj, name)
hasattr(obj, name) == name \in DOMAIN obj

\* getattr(obj, name, None)
getattr(obj, name) ==
    IF ~hasattr(obj, name) THEN None
    ELSE IF obj[name].callable THEN BoundMethod ELSE obj[name].value

\* The outcome of a call: exc is "none" when it returned val
Return(v) == [exc |-> "none", val |-> v]

Raise(e) == [exc |-> e, val |-> None]

\* getattr(obj, name)() for a name obj has
CallAttr(obj, name) ==
    IF ~obj[name].callable THEN Raise("TypeError")
    ELSE IF obj[name].raises THEN Raise("Exception")
    ELSE Return(obj[name].value)

-----------------------------------------------------------------------------
(* BaseProductMapper *)

\* self.convert_camel_case(attr) for each field name, computed once
PyAttr == [attr \in FieldNames |-> convert_camel_case(Chars[attr])]

GetPrefix == <<"g","e","t","_">>

\* A slip that reads the plain attribute before the get_ method
_get_value_from_attr_first(obj, attr) ==
    IF hasattr(obj, attr) THEN Return(getattr(obj, attr))
    ELSE IF hasattr(obj, GetPrefix \o attr) THEN CallAttr(obj, GetPrefix \o attr)
    ELSE Return(None)

\* The check lines 101-105 leave commented out: a falsy value raises
_get_value_from_required(obj, attr) ==
    LET method_name == GetPrefix \o attr
        got == IF hasattr(obj, method_name)
               THEN CallAttr(obj, method_name)
               ELSE Return(getattr(obj, attr))
    IN  IF got.exc = "none" /\ ~Truthy(got.val) THEN Raise("AttributeError") ELSE got

_get_value_from(obj, attr) ==
    LET method_name == GetPrefix \o attr
    IN  IF hasattr(obj, method_name)
        THEN CallAttr(obj, method_name)
        ELSE Return(getattr(obj, attr))

serialise(value) ==
    IF ~Truthy(value) THEN <<>>
    ELSE IF value.kind \in {"date", "datetime"} THEN value.iso
    ELSE Unicode(value)

\* An element without text: lxml's E.tag(*children)
Element(tag, children) == [tag |-> tag, text |-> <<>>, children |-> children]

\* etree.SubElement(elem, tag).text = text
SubElement(elem, tag, text) ==
    [elem EXCEPT !.children = Append(@, [tag |-> tag, text |-> text, children |-> <<>>])]

\* A slip that asks the product before its amazon_profile
LookupValue_product_first(self, product, pyattr) ==
    LET fromProduct == _get_value_from(product.attrs, pyattr)
    IN  IF fromProduct.exc # "none" \/ Truthy(fromProduct.val) THEN fromProduct
        ELSE LET fromProfile == IF product.has_amazon_profile
                                THEN _get_value_from(product.amazon_profile, pyattr)
                                ELSE Return(None)
             IN  IF fromProfile.exc # "none" \/ Truthy(fromProfile.val) THEN fromProfile
                 ELSE _get_value_from(self, pyattr)

\* The lookups of one field, lines 112-121: the amazon_profile, then the
\* product, then the mapper, each tried only while no truthy value is found
LookupValue(self, product, pyattr) ==
    LET fromProfile == IF product.has_amazon_profile
                       THEN _get_value_from(product.amazon_profile, pyattr)
                       ELSE Return(None)
    IN  IF fromProfile.exc # "none" \/ Truthy(fromProfile.val) THEN fromProfile
        ELSE LET fromProduct == _get_value_from(product.attrs, pyattr)
             IN  IF fromProduct.exc # "none" \/ Truthy(fromProduct.val) THEN fromProduct
                 ELSE _get_value_from(self, pyattr)

RECURSIVE AddAttributesFrom(_, _, _, _, _)
\* The loop of _add_attributes from the i-th name on; a raise leaves the loop
AddAttributesFrom(self, product, elem, attr_names, i) ==
    IF i > Len(attr_names) THEN [exc |-> "none", elem |-> elem]
    ELSE LET attr   == attr_names[i]
             pyattr == PyAttr[attr]
             found  == LookupValue(self, product, pyattr)
         IN  IF found.exc # "none" THEN [exc |-> found.exc, elem |-> elem]
             ELSE IF Truthy(found.val)
                  THEN LET text == IF found.val.kind # "str"
                                   THEN serialise(found.val)
                                   ELSE found.val.s
                       IN  AddAttributesFrom(self, product,
                               SubElement(elem, attr, text), attr_names, i + 1)
                  ELSE AddAttributesFrom(self, product, elem, attr_names, i + 1)

_add_attributes(self, product, elem, attr_names) ==
    AddAttributesFrom(self, product, elem, attr_names, 1)

\* A slip that fills the description fields into the Product element itself
get_product_xml_flat(self, product) ==
    LET base == _add_attributes(self, product, Element("Product", <<>>),
                                BASE_ATTRIBUTES)
    IN  IF base.exc # "none" THEN Raise(base.exc)
        ELSE LET desc == _add_attributes(self, product,
                             [base.elem EXCEPT !.children =
                                 Append(@, Element("DescriptionData", <<>>))],
                             DESCRIPTION_DATA_ATTRIBUTES)
             IN  IF desc.exc # "none" THEN Raise(desc.exc) ELSE Return(desc.elem)

get_product_xml(self, product) ==
    LET base == _add_attributes(self, product, Element("Product", <<>>),
                                BASE_ATTRIBUTES)
    IN  IF base.exc # "none" THEN Raise(base.exc)
        ELSE LET desc == _add_attributes(self, product,
                             Element("DescriptionData", <<>>),
                             DESCRIPTION_DATA_ATTRIBUTES)
             IN  IF desc.exc # "none" THEN Raise(desc.exc)
                 ELSE Return([base.elem EXCEPT
                                 !.children = Append(@, desc.elem)])

-----------------------------------------------------------------------------
(* ProductFeedWriter *)

OP_UPDATE == <<"U","p","d","a","t","e">>

OP_DELETE == <<"D","e","l","e","t","e">>

OP_PARTIAL_UPDATE == <<"P","a","r","t","i","a","l","U","p","d","a","t","e">>

MSG_TYPE_PRODUCT == <<"P","r","o","d","u","c","t">>

XSI == "http://www.w3.org/2001/XMLSchema-instance"

NSMAP == [xsi |-> XSI]

\* lxml's E.tag(text)
TextElement(tag, text) == [tag |-> tag, text |-> text, children |-> <<>>]

\* The envelope __init__ builds, lines 164-179
Envelope(merchant_id, purge_and_replace) ==
    LET purge_value == IF ~purge_and_replace
                       THEN <<"f","a","l","s","e">>
                       ELSE <<"t","r","u","e">>
    IN  [tag      |-> "AmazonEnvelope",
         nsmap    |-> NSMAP,
         attrib   |-> [name  |-> <<XSI, "noNamespaceSchemaLocation">>,
                       value |-> "amzn-envelope.xsd"],
         text     |-> <<>>,
         children |-> <<
             Element("Header", <<
                 TextElement("DocumentVersion", <<"1",".","0","1">>),
                 TextElement("MerchantIdentifier", merchant_id) >>),
             TextElement("MessageType", MSG_TYPE_PRODUCT),
             TextElement("PurgeAndReplace", purge_value) >>]

\* The Message element of add_product, lines 187-191
Message(msg_id, operation_type, product_elem) ==
    Element("Message", <<
        TextElement("MessageID", Unicode(PyInt(msg_id))),
        TextElement("OperationType", operation_type),
        product_elem >>)

(* etree.tostring: the document as a sequence of tokens.  Text is escaped;  *)
(* pretty_print puts each element that holds elements on lines of its own. *)

EscapeChar(c) ==
    CASE c = "&" -> <<"&","a","m","p",";">>
      [] c = "<" -> <<"&","l","t",";">>
      [] c = ">" -> <<"&","g","t",";">>
      [] OTHER   -> <<c>>

RECURSIVE EscapeText(_)
EscapeText(s) ==
    IF s = <<>> THEN <<>> ELSE EscapeChar(Head(s)) \o EscapeText(Tail(s))

Token(kind, tag, text) == [kind |-> kind, tag |-> tag, text |-> text]

Indent(pretty_print, depth) ==
    IF pretty_print THEN <<Token("indent", "", NatText(depth))>> ELSE <<>>

Newline(pretty_print) ==
    IF pretty_print THEN <<Token("newline", "", <<>>)>> ELSE <<>>

RECURSIVE RenderElement(_, _, _)
RECURSIVE RenderChildren(_, _, _, _)
RenderChildren(children, i, pretty_print, depth) ==
    IF i > Len(children) THEN <<>>
    ELSE RenderElement(children[i], pretty_print, depth)
             \o RenderChildren(children, i + 1, pretty_print, depth)

RenderElement(elem, pretty_print, depth) ==
    IF elem.children = <<>> /\ elem.text = <<>>
    THEN Indent(pretty_print, depth) \o <<Token("empty", elem.tag, <<>>)>>
             \o Newline(pretty_print)
    ELSE IF elem.children = <<>>
    THEN Indent(pretty_print, depth)
             \o <<Token("open", elem.tag, <<>>),
                  Token("text", "", EscapeText(elem.text)),
                  Token("close", elem.tag, <<>>)>>
             \o Newline(pretty_print)
    ELSE Indent(pretty_print, depth)
             \o <<Token("open", elem.tag, <<>>)>> \o Newline(pretty_print)
             \o RenderChildren(elem.children, 1, pretty_print, depth + 1)
             \o Indent(pretty_print, depth)
             \o <<Token("close", elem.tag, <<>>)>> \o Newline(pretty_print)

\* etree.tostring(root, pretty_print=..., xml_declaration=True, encoding='utf-8')
tostring(elem, pretty_print) ==
    <<Token("declaration", "xml", <<"u","t","f","-","8">>),
      Token("newline", "", <<>>),
      Token("root", elem.tag, <<>>),
      Token("xmlns", elem.nsmap.xsi, <<>>),
      Token("attribute", elem.attrib.name[2], <<>>),
      Token("value", elem.attrib.value, <<>>)>>
        \o Newline(pretty_print)
        \o RenderChildren(elem.children, 1, pretty_print, 1)
        \o <<Token("close", elem.tag, <<>>)>> \o Newline(pretty_print)

-----------------------------------------------------------------------------
(* Bounds and inputs *)

\* add_product calls per writer
MaxAdds == 2

\* Length of the generated names given to convert_camel_case
MaxLen == 3

\* Length of the generated field lists given to _add_attributes
MaxFields == 2

K_sku == <<"s","k","u">>

K_title == <<"t","i","t","l","e">>

K_brand == <<"b","r","a","n","d">>

K_launch_date == <<"l","a","u","n","c","h","_","d","a","t","e">>

K_release_date == <<"r","e","l","e","a","s","e","_","d","a","t","e">>

K_item_package_quantity ==
    <<"i","t","e","m","_","p","a","c","k","a","g","e","_",
      "q","u","a","n","t","i","t","y">>

\* An object with name bound to entry, or without it
Bind(present, name, entry) ==
    IF present THEN name :> entry ELSE NoAttrs

Absent == [present |-> FALSE, entry |-> Attribute(None)]

Present(entry) == [present |-> TRUE, entry |-> entry]

\* What an object of source src ("P"rofile, "R"ecord, "M"apper) may bind to
\* get_<key>: nothing, a method that raises, or one returning None, '', text
MethodOptions(src) ==
    {Absent, Present(RaisingMethod), Present(Method(None)),
     Present(Method(PyStr(<<>>))), Present(Method(PyStr(<<src, "m">>)))}

\* What it may bind to <key>: nothing, 0, text, or a number
AttrOptions(src) ==
    {Absent, Present(Attribute(PyInt(0))), Present(Attribute(PyStr(<<src, "a">>))),
     Present(Attribute(PyInt(IF src = "P" THEN 7 ELSE IF src = "R" THEN 12 ELSE 305)))}

ObjectsOn(key, src) ==
    {Bind(m.present, GetPrefix \o key, m.entry) @@ Bind(a.present, key, a.entry) :
        m \in MethodOptions(src), a \in AttrOptions(src)}

Product(has_amazon_profile, amazon_profile, attrs) ==
    [has_amazon_profile |-> has_amazon_profile,
     amazon_profile     |-> amazon_profile,
     attrs              |-> attrs]

\* Products that differ in how one field is bound on the profile and on the
\* product itself
FocusKeys == {K_sku, K_title}

FocusProducts ==
    UNION {
        {Product(FALSE, NoAttrs, r) : r \in ObjectsOn(k, "R")}
        \cup {Product(TRUE, p, r) : p \in ObjectsOn(k, "P"), r \in ObjectsOn(k, "R")}
        : k \in FocusKeys}

ADate == PyDate("date", <<"2","0","1","3","-","0","5","-","0","1">>,
                      <<"2","0","1","3","-","0","5","-","0","1">>)

ADateTime ==
    PyDate("datetime",
         <<"2","0","1","3","-","0","5","-","0","1"," ","1","0",":","3","0",":","0","0">>,
         <<"2","0","1","3","-","0","5","-","0","1","T","1","0",":","3","0",":","0","0">>)

\* Products with several fields bound, of several types
ManyFieldProducts ==
    {Product(hp,
             IF hp THEN K_brand :> Attribute(PyStr(<<"A","&","B">>)) ELSE NoAttrs,
             Bind(sku, K_sku, Attribute(PyStr(<<"A","B","C","-","1">>)))
                 @@ Bind(date, K_launch_date, Attribute(ADate))
                 @@ Bind(date, GetPrefix \o K_release_date, Method(ADateTime))
                 @@ Bind(qty, K_item_package_quantity, Attribute(PyInt(0)))
                 @@ Bind(~qty, K_item_package_quantity, Attribute(PyInt(24)))
                 @@ Bind(title, GetPrefix \o K_title, Method(PyStr(<<"T","<","1">>)))) :
        hp \in BOOLEAN, sku \in BOOLEAN, date \in BOOLEAN,
        qty \in BOOLEAN, title \in BOOLEAN}

Products == FocusProducts \cup ManyFieldProducts

\* Mapper classes: BaseProductMapper, whose own attributes match no field, and
\* subclasses that add defaults
MapperClasses ==
    {NoAttrs,
     K_sku :> Attribute(PyStr(<<"M", "a">>)),
     GetPrefix \o K_sku :> Method(PyStr(<<"M", "m">>)),
     GetPrefix \o K_sku :> RaisingMethod,
     (K_sku :> Attribute(PyInt(305)))
         @@ (GetPrefix \o K_title :> Method(PyStr(<<"M", "t">>)))}

MerchantIds == {<<"M","1","2","3">>}

OperationTypes == {OP_UPDATE, OP_DELETE, OP_PARTIAL_UPDATE}

\* The records given to add_product: one field; a profile that overrides the
\* product; an accessor that raises after the base fields were built
FeedProducts ==
    {Product(FALSE, NoAttrs, K_sku :> Attribute(PyStr(<<"A","B","C","-","1">>))),
     Product(TRUE, GetPrefix \o K_sku :> Method(PyStr(<<"P","-","1">>)),
             (K_sku :> Attribute(PyStr(<<"R","-","1">>)))
                 @@ (K_title :> Attribute(PyStr(<<"T","&","T">>)))),
     Product(FALSE, NoAttrs,
             (K_sku :> Attribute(PyStr(<<"X">>)))
                 @@ (GetPrefix \o K_title :> RaisingMethod))}

\* The mapper argument of __init__: None, or a subclass with a default brand
MapperArguments == {NoAttrs, K_brand :> Attribute(PyStr(<<"A","c","m","e">>))}

NoArgs == [none |-> TRUE]

-----------------------------------------------------------------------------
(* The writer: ProductFeedWriter's operations on one instance *)

\* __init__: the schema attribute is never assigned, neither here nor on
\* the class
Init ==
    \E merchant_id \in MerchantIds, purge_and_replace \in BOOLEAN,
       mapper \in MapperArguments :
        /\ mapper_class = (IF DOMAIN mapper # {} THEN mapper ELSE NoAttrs)
        /\ root = Envelope(merchant_id, purge_and_replace)
        /\ msg_counter = 1
        /\ messages = [id \in {} |-> Product(FALSE, NoAttrs, NoAttrs)]
        /\ schema = "unset"
        /\ op = "__init__"
        /\ arg = NoArgs
        /\ ret = None
        /\ exc = "none"
        /\ adds = <<>>

\* The frame of add_product: what every variant of it sets or leaves alone
AddProductCall(product, operation_type, built) ==
    /\ adds' = Append(adds, [product        |-> product,
                             operation_type |-> operation_type,
                             msg_id         |-> msg_counter,
                             exc            |-> built.exc])
    /\ op' = "add_product"
    /\ arg' = [product |-> product, operation_type |-> operation_type]
    /\ ret' = None
    /\ exc' = built.exc
    /\ UNCHANGED <<schema, mapper_class>>

\* A slip that draws the message id only once the Product element is built
add_product_id_after_build(product, operation_type) ==
    /\ msg_counter <= MaxAdds
    /\ LET built == get_product_xml(mapper_class, product)
       IN  /\ IF built.exc # "none"
              THEN UNCHANGED <<msg_counter, messages, root>>
              ELSE /\ msg_counter' = msg_counter + 1
                   /\ messages' = (msg_counter :> product) @@ messages
                   /\ root' = [root EXCEPT !.children =
                                  Append(@, Message(msg_counter, operation_type, built.val))]
           /\ AddProductCall(product, operation_type, built)

\* A slip that inserts the Message as the first child of the envelope
add_product_insert_first(product, operation_type) ==
    /\ msg_counter <= MaxAdds
    /\ LET built == get_product_xml(mapper_class, product)
       IN  /\ msg_counter' = msg_counter + 1
           /\ IF built.exc # "none"
              THEN UNCHANGED <<messages, root>>
              ELSE /\ messages' = (msg_counter :> product) @@ messages
                   /\ root' = [root EXCEPT !.children =
                                  <<Message(msg_counter, operation_type, built.val)>> \o @]
           /\ AddProductCall(product, operation_type, built)

\* A slip that records the product before its Product element is built
add_product_record_first(product, operation_type) ==
    /\ msg_counter <= MaxAdds
    /\ LET built == get_product_xml(mapper_class, product)
       IN  /\ msg_counter' = msg_counter + 1
           /\ messages' = (msg_counter :> product) @@ messages
           /\ IF built.exc # "none"
              THEN UNCHANGED root
              ELSE root' = [root EXCEPT !.children =
                               Append(@, Message(msg_counter, operation_type, built.val))]
           /\ AddProductCall(product, operation_type, built)

add_product(product, operation_type) ==
    /\ msg_counter <= MaxAdds
    /\ LET msg_id == msg_counter
           built  == get_product_xml(mapper_class, product)
       IN  /\ msg_counter' = msg_counter + 1
           /\ IF built.exc # "none"
              THEN UNCHANGED <<messages, root>>
              ELSE /\ messages' = (msg_id :> product) @@ messages
                   /\ root' = [root EXCEPT !.children =
                                  Append(@, Message(msg_id, operation_type, built.val))]
           /\ AddProductCall(product, operation_type, built)

\* self.schema is read first: while the attribute is missing that read raises
\* AttributeError.  With a schema, an invalid document is logged through
\* schema.error.log, and lxml's XMLSchema has error_log but no error.
validate_xml ==
    /\ IF schema = "unset"
       THEN /\ exc' = "AttributeError"
            /\ UNCHANGED schema
       ELSE \E readable \in BOOLEAN, is_valid \in BOOLEAN :
                IF schema = "none" /\ ~readable
                THEN /\ exc' = "IOError"
                     /\ UNCHANGED schema
                ELSE /\ schema' = "loaded"
                     /\ exc' = IF is_valid THEN "none" ELSE "AttributeError"
    /\ op' = "validate_xml"
    /\ arg' = NoArgs
    /\ ret' = None
    /\ UNCHANGED <<root, msg_counter, messages, mapper_class, adds>>

\* A slip that draws a message id while serialising
as_string_drawing_id(pretty_print) ==
    /\ op' = "as_string"
    /\ arg' = [pretty_print |-> pretty_print]
    /\ ret' = tostring(root, pretty_print)
    /\ exc' = "none"
    /\ msg_counter' = msg_counter + 1
    /\ UNCHANGED <<root, messages, schema, mapper_class, adds>>

as_string(pretty_print) ==
    /\ op' = "as_string"
    /\ arg' = [pretty_print |-> pretty_print]
    /\ ret' = tostring(root, pretty_print)
    /\ exc' = "none"
    /\ UNCHANGED <<root, msg_counter, messages, schema, mapper_class, adds>>

AddProduct == \E product \in FeedProducts, operation_type \in OperationTypes :
                  add_product(product, operation_type)

ValidateXml == validate_xml

AsString == \E pretty_print \in BOOLEAN : as_string(pretty_print)

Next == AddProduct \/ ValidateXml \/ AsString

Spec == Init /\ [][Next]_vars

-----------------------------------------------------------------------------
(* The mapper: BaseProductMapper's methods applied to one product *)

\* The field lists given to _add_attributes: the two of the class, and every
\* list of up to MaxFields distinct names among a few
ListFields == {"SKU", "Title", "LaunchDate"}

RECURSIVE ListsOfLen(_)
ListsOfLen(n) ==
    IF n = 0 THEN {<<>>}
    ELSE {Append(l, f) : l \in ListsOfLen(n - 1), f \in ListFields}

FieldLists ==
    {BASE_ATTRIBUTES, DESCRIPTION_DATA_ATTRIBUTES}
        \cup {l \in UNION {ListsOfLen(n) : n \in 0..MaxFields} :
                 \A i, j \in 1..Len(l) : i # j => l[i] # l[j]}

NoCall == [obj |-> NoAttrs, attr |-> <<>>, attr_names |-> <<>>]

MapperIdle ==
    /\ root = Envelope(<<>>, FALSE)
    /\ msg_counter = 1
    /\ messages = <<>>
    /\ schema = "unset"
    /\ adds = <<>>

MapperInit ==
    /\ MapperIdle
    /\ mapper_class \in MapperClasses
    /\ \E product \in Products : arg = [product |-> product, call |-> NoCall]
    /\ op = "input"
    /\ ret = None
    /\ exc = "none"

\* self._get_value_from(obj, attr) on the profile, the product or the mapper
GetValueFrom ==
    /\ op = "input"
    /\ \E obj \in {arg.product.amazon_profile, arg.product.attrs, mapper_class},
          attr \in {K_sku, K_title, K_brand} :
           LET got == _get_value_from(obj, attr)
           IN  /\ arg' = [arg EXCEPT !.call = [NoCall EXCEPT !.obj = obj, !.attr = attr]]
               /\ ret' = got.val
               /\ exc' = got.exc
    /\ op' = "_get_value_from"
    /\ UNCHANGED <<root, msg_counter, messages, schema, mapper_class, adds>>

\* self._add_attributes(product, elem, attr_names) on a fresh element
AddAttributes ==
    /\ op = "input"
    /\ \E attr_names \in FieldLists :
           LET got == _add_attributes(mapper_class, arg.product,
                                      Element("Parent", <<>>), attr_names)
           IN  /\ arg' = [arg EXCEPT !.call = [NoCall EXCEPT !.attr_names = attr_names]]
               /\ ret' = got.elem
               /\ exc' = got.exc
    /\ op' = "_add_attributes"
    /\ UNCHANGED <<root, msg_counter, messages, schema, mapper_class, adds>>

\* self.get_product_xml(product)
GetProductXml ==
    /\ op = "input"
    /\ LET got == get_product_xml(mapper_class, arg.product)
       IN  /\ ret' = got.val
           /\ exc' = got.exc
    /\ op' = "get_product_xml"
    /\ UNCHANGED <<arg, root, msg_counter, messages, schema, mapper_class, adds>>

MapperNext == GetValueFrom \/ AddAttributes \/ GetProductXml

MapperSpec == MapperInit /\ [][MapperNext]_vars

-----------------------------------------------------------------------------
(* convert_camel_case applied to a name, and to its own output *)

NameChars == {"A", "B", "a", "b", "1", "_"}

RECURSIVE NamesOfLen(_)
NamesOfLen(n) ==
    IF n = 0 THEN {<<>>}
    ELSE {Append(s, c) : s \in NamesOfLen(n - 1), c \in NameChars}

\* Every name over NameChars of up to MaxLen characters, and every field name
Names ==
    UNION {NamesOfLen(n) : n \in 0..MaxLen} \cup {Chars[f] : f \in FieldNames}

CamelInit ==
    /\ MapperIdle
    /\ mapper_class = NoAttrs
    /\ arg \in Names
    /\ op = "input"
    /\ ret = <<>>
    /\ exc = "none"

\* self.convert_camel_case(name)
ConvertCamelCase ==
    /\ op = "input"
    /\ op' = "convert_camel_case"
    /\ ret' = convert_camel_case(arg)
    /\ UNCHANGED <<arg, exc, root, msg_counter, messages, schema, mapper_class, adds>>

\* self.convert_camel_case(key) for the key an earlier call returned
ConvertAgain ==
    /\ op = "convert_camel_case"
    /\ op' = "convert_camel_case again"
    /\ arg' = ret
    /\ ret' = convert_camel_case(ret)
    /\ UNCHANGED <<exc, root, msg_counter, messages, schema, mapper_class, adds>>

CamelNext == ConvertCamelCase \/ ConvertAgain

CamelSpec == CamelInit /\ [][CamelNext]_vars

-----------------------------------------------------------------------------
(* Properties of the writer, checked under Spec *)

\* The Message elements of the envelope: its children after the first three
EnvelopeMessages == SubSeq(root.children, 4, Len(root.children))

MessageIdText(message) == message.children[1].text

DigitValue(c) == CHOOSE d \in 0..9 : Digit(d) = c

RECURSIVE TextNat(_)
\* The number a decimal text denotes
TextNat(s) ==
    IF Len(s) = 1 THEN DigitValue(s[1])
    ELSE 10 * TextNat(SubSeq(s, 1, Len(s) - 1)) + DigitValue(s[Len(s)])

\* The ordinals of the add_product calls that returned, in call order
RECURSIVE CompletedFrom(_)
CompletedFrom(j) ==
    IF j > Len(adds) THEN <<>>
    ELSE (IF adds[j].exc = "none" THEN <<j>> ELSE <<>>) \o CompletedFrom(j + 1)

CompletedAdds == CompletedFrom(1)

\* C1 as stated: the MessageID values of the envelope are exactly 1..N in
\* insertion order, N being the number of Message elements.
C1_IdsAreOneToN ==
    \A i \in 1..Len(EnvelopeMessages) :
        MessageIdText(EnvelopeMessages[i]) = NatText(i)

\* C1, amended: the MessageID of each Message is the ordinal of the
\* add_product call that appended it, counting every call, also those that
\* raised; so the ids strictly increase in insertion order, none is reused,
\* and they are exactly 1..N when no call raised.
C1_IdsAreCallOrdinals ==
    /\ Len(EnvelopeMessages) = Len(CompletedAdds)
    /\ \A i \in 1..Len(EnvelopeMessages) :
           TextNat(MessageIdText(EnvelopeMessages[i])) = CompletedAdds[i]
    /\ \A i, j \in 1..Len(EnvelopeMessages) :
           i < j => TextNat(MessageIdText(EnvelopeMessages[i]))
                        < TextNat(MessageIdText(EnvelopeMessages[j]))
    /\ (\A j \in 1..Len(adds) : adds[j].exc = "none")
           => \A i \in 1..Len(EnvelopeMessages) :
                  MessageIdText(EnvelopeMessages[i]) = NatText(i)

\* Two records added with different operation types carry the ids 1 and 2
C1_Witness ==
    /\ Len(EnvelopeMessages) = 2
    /\ EnvelopeMessages[1].children[2].text # EnvelopeMessages[2].children[2].text
    /\ MessageIdText(EnvelopeMessages[1]) = <<"1">>
    /\ MessageIdText(EnvelopeMessages[2]) = <<"2">>

\* C2 as stated: validate_xml completes without raising whenever it is
\* called, also on a writer to which nothing was added.
C2_ValidateXmlReturns == op = "validate_xml" => exc = "none"

\* C3: the envelope holds one Header, one MessageType and one
\* PurgeAndReplace, in that order, then one Message per add_product call
\* that returned, in call order.
C3_EnvelopeShape ==
    /\ Len(root.children) >= 3
    /\ root.children[1].tag = "Header"
    /\ root.children[2].tag = "MessageType"
    /\ root.children[3].tag = "PurgeAndReplace"
    /\ \A i \in 4..Len(root.children) : root.children[i].tag = "Message"
    /\ Len(EnvelopeMessages) = Len(CompletedAdds)
    /\ \A i \in 1..Len(EnvelopeMessages) :
           LET call == adds[CompletedAdds[i]]
               message == EnvelopeMessages[i]
           IN  /\ Len(message.children) = 3
               /\ message.children[1].tag = "MessageID"
               /\ message.children[1].text = NatText(call.msg_id)
               /\ message.children[2].tag = "OperationType"
               /\ message.children[2].text = call.operation_type
               /\ message.children[3].tag = "Product"

\* Two Messages in the envelope after a call other than add_product
C3_Witness ==
    /\ Len(root.children) = 5
    /\ op \in {"as_string", "validate_xml"}

\* C7: as_string leaves the envelope, the counter and the id-to-record
\* mapping as they are; its output is the document of the envelope under the
\* given pretty_print flag and of nothing else, so that two calls with the
\* same flag on the same envelope, such as two calls in a row, return the
\* same output.
C7_AsStringPure ==
    [][op' = "as_string" =>
          /\ root' = root
          /\ msg_counter' = msg_counter
          /\ messages' = messages
          /\ exc' = "none"
          /\ ret' = tostring(root, arg'.pretty_print)
          /\ (op = "as_string" /\ arg.pretty_print = arg'.pretty_print) => ret' = ret
      ]_vars

\* as_string returned the document of an envelope that holds a Message
C7_Witness ==
    /\ op = "as_string"
    /\ arg.pretty_print
    /\ Len(EnvelopeMessages) >= 1
    /\ \E i \in 1..Len(ret) : ret[i].kind = "open" /\ ret[i].tag = "Message"

\* The MessageID values present in the envelope
EnvelopeIds ==
    {TextNat(MessageIdText(EnvelopeMessages[i])) : i \in 1..Len(EnvelopeMessages)}

\* C10: the keys of the id-to-record mapping are the MessageID values of the
\* envelope, each key maps to the record given to the call that appended that
\* Message, and a call that raised left no Message and no entry.
C10_MessagesMatchEnvelope ==
    /\ DOMAIN messages = EnvelopeIds
    /\ \A j \in 1..Len(adds) :
           IF adds[j].exc = "none"
           THEN /\ adds[j].msg_id \in DOMAIN messages
                /\ messages[adds[j].msg_id] = adds[j].product
           ELSE /\ adds[j].msg_id \notin DOMAIN messages
                /\ adds[j].msg_id \notin EnvelopeIds

\* A call that raised, then one that returned
C10_Witness ==
    /\ Len(adds) = 2
    /\ adds[1].exc # "none"
    /\ adds[2].exc = "none"
    /\ DOMAIN messages = {2}

-----------------------------------------------------------------------------
(* Properties of the mapper, checked under MapperSpec *)

HasMethod(obj, key) == (GetPrefix \o key) \in DOMAIN obj

\* What one source yields for a key by itself: the return value of its
\* get_<key> method when it has one (nothing when calling it fails), else its
\* plain attribute <key>, else None
Yield(obj, key) ==
    IF HasMethod(obj, key)
    THEN LET method == obj[GetPrefix \o key]
         IN  IF method.callable /\ ~method.raises
             THEN [ok |-> TRUE, val |-> method.value]
             ELSE [ok |-> FALSE, val |-> None]
    ELSE IF key \in DOMAIN obj /\ ~obj[key].callable
         THEN [ok |-> TRUE, val |-> obj[key].value]
         ELSE [ok |-> TRUE, val |-> None]

\* None, empty text and 0
Falsy(v) == v = None \/ v = PyStr(<<>>) \/ v = PyInt(0)

YieldsValue(obj, key) == Yield(obj, key).ok /\ ~Falsy(Yield(obj, key).val)

YieldsNothing(obj, key) == Yield(obj, key).ok /\ Falsy(Yield(obj, key).val)

\* The text of a value in the feed
TextOf(v) ==
    IF v.kind = "str" THEN v.s
    ELSE IF v.kind \in {"date", "datetime"} THEN v.iso
    ELSE Unicode(v)

TheProfile == IF arg.product.has_amazon_profile
              THEN arg.product.amazon_profile
              ELSE NoAttrs

TheProduct == arg.product.attrs

\* Some source yields a value for the field
Resolves(field) ==
    \/ YieldsValue(TheProfile, PyAttr[field])
    \/ YieldsValue(TheProduct, PyAttr[field])
    \/ YieldsValue(mapper_class, PyAttr[field])

Tags(children) == [i \in 1..Len(children) |-> children[i].tag]

\* The texts of the children of elem named after the field
ChildTexts(elem, field) ==
    LET named(child) == child.tag = field
        found == SelectSeq(elem.children, named)
    IN  [i \in 1..Len(found) |-> found[i].text]

Elements(seq) == {seq[i] : i \in 1..Len(seq)}

\* C4: _add_attributes asks the amazon_profile, then the product, then the
\* mapper, and emits the value of the first that yields one: the profile's
\* when profile and product both yield one, the mapper's only when neither
\* the profile nor the product does.
C4_LookupOrder ==
    (op = "_add_attributes" /\ exc = "none") =>
        \A field \in Elements(arg.call.attr_names) :
            LET key == PyAttr[field]
                emitted == ChildTexts(ret, field)
            IN  /\ YieldsValue(TheProfile, key)
                       => emitted = <<TextOf(Yield(TheProfile, key).val)>>
                /\ (YieldsNothing(TheProfile, key) /\ YieldsValue(TheProduct, key))
                       => emitted = <<TextOf(Yield(TheProduct, key).val)>>
                /\ (/\ YieldsNothing(TheProfile, key)
                    /\ YieldsNothing(TheProduct, key)
                    /\ YieldsValue(mapper_class, key))
                       => emitted = <<TextOf(Yield(mapper_class, key).val)>>
                /\ (/\ YieldsValue(mapper_class, key)
                    /\ emitted = <<TextOf(Yield(mapper_class, key).val)>>)
                       => /\ YieldsNothing(TheProfile, key)
                          /\ YieldsNothing(TheProduct, key)

\* Profile and product both hold an sku, and the profile's is emitted
C4_Witness ==
    /\ op = "_add_attributes"
    /\ exc = "none"
    /\ arg.call.attr_names = <<"Title", "SKU">>
    /\ arg.product.has_amazon_profile
    /\ Yield(TheProfile, K_sku).val = PyInt(7)
    /\ Yield(TheProduct, K_sku).val = PyStr(<<"R", "m">>)
    /\ ret.children = <<TextElement("SKU", <<"7">>)>>

\* C5: a source that has both a get_<key> method and a plain attribute <key>
\* answers with what the method returns, also when that is falsy: the
\* attribute is then not emitted, the lookup goes on to the next source.
C5_MethodBeforeAttribute ==
    /\ op = "_get_value_from" =>
           LET obj == arg.call.obj
               key == arg.call.attr
           IN  (/\ HasMethod(obj, key)
                /\ obj[GetPrefix \o key].callable
                /\ ~obj[GetPrefix \o key].raises
                /\ key \in DOMAIN obj)
                   => /\ exc = "none"
                      /\ ret = obj[GetPrefix \o key].value
    /\ (op = "_add_attributes" /\ exc = "none") =>
           \A field \in Elements(arg.call.attr_names) :
               \A obj \in {TheProfile, TheProduct, mapper_class} :
                   LET key == PyAttr[field]
                   IN  (/\ HasMethod(obj, key)
                        /\ YieldsNothing(obj, key)
                        /\ key \in DOMAIN obj
                        /\ ~Falsy(obj[key].value))
                           => ChildTexts(ret, field) # <<TextOf(obj[key].value)>>

\* A get_sku method returning None beside an attribute sku that holds text
C5_Witness ==
    /\ op = "_get_value_from"
    /\ arg.call.attr = K_sku
    /\ HasMethod(arg.call.obj, K_sku)
    /\ arg.call.obj[GetPrefix \o K_sku] = Method(None)
    /\ K_sku \in DOMAIN arg.call.obj
    /\ arg.call.obj[K_sku] = Attribute(PyStr(<<"R", "a">>))
    /\ ret = None
    /\ exc = "none"

C8_ProductShape ==
    (op = "get_product_xml" /\ exc = "none") =>
        LET n == Len(ret.children)
        IN  /\ ret.tag = "Product"
            /\ n >= 1
            /\ ret.children[n].tag = "DescriptionData"
            /\ Tags(SubSeq(ret.children, 1, n - 1))
                   = SelectSeq(BASE_ATTRIBUTES, Resolves)
            /\ Tags(ret.children[n].children)
                   = SelectSeq(DESCRIPTION_DATA_ATTRIBUTES, Resolves)
            /\ \A i \in 1..(n - 1) :
                   ret.children[i].tag \notin Elements(DESCRIPTION_DATA_ATTRIBUTES)
            /\ \A i \in 1..Len(ret.children[n].children) :
                   ret.children[n].children[i].tag \notin Elements(BASE_ATTRIBUTES)

\* A product with base fields, a title and a brand
C8_Witness ==
    /\ op = "get_product_xml"
    /\ exc = "none"
    /\ Tags(ret.children) = <<"SKU", "LaunchDate", "ReleaseDate", "DescriptionData">>
    /\ Tags(ret.children[4].children) = <<"Title", "Brand">>

-----------------------------------------------------------------------------
(* Properties of convert_camel_case, checked under CamelSpec *)

\* C9: convert_camel_case maps StandardProductID, SKU and
\* ItemPackageQuantity to standard_product_id, sku and item_package_quantity,
\* and applied to a key it returned it returns that key unchanged.
C9_CamelCase ==
    /\ op = "convert_camel_case again" => ret = arg
    /\ op = "convert_camel_case" =>
           /\ arg = Chars["StandardProductID"] =>
                  ret = <<"s","t","a","n","d","a","r","d","_",
                          "p","r","o","d","u","c","t","_","i","d">>
           /\ arg = Chars["SKU"] => ret = K_sku
           /\ arg = Chars["ItemPackageQuantity"] => ret = K_item_package_quantity

\* The key of StandardProductID, converted again
C9_Witness ==
    /\ op = "convert_camel_case again"
    /\ arg = <<"s","t","a","n","d","a","r","d","_",
               "p","r","o","d","u","c","t","_","i","d">>
    /\ ret = arg

=============================================================================
